---- MODULE Spec2Model ----
(***************************************************************************)
(* Brainly backend (week-16-second-brain): signup, signin, the bearer-token *)
(* middleware, the share-link registry and the public share resolver, as a  *)
(* state machine over the document store.  Every HTTP request in flight     *)
(* occupies a slot of reqs.  One action is what a handler does between two  *)
(* awaits: a store operation settles and the continuation it wakes runs up  *)
(* to the next await or to the response.  The pages of brainly-fe that talk *)
(* to it (signin, signup, the add-content modal) and the dashboard's Card   *)
(* are modelled beside it: one action per event handler or settled promise. *)
(***************************************************************************)
EXTENDS Integers, Sequences, FiniteSets, TLC

\* ------------------------------------------------------------------ bounds
\* ObjectIds of users: 1..MaxUsers
MaxUsers == 2
\* request slots: 1..MaxReqs
MaxReqs == 2
\* content items created in a run
MaxContents == 2
\* the clock runs from 0 to MaxTime
MaxTime == 1

UserIds == 1..MaxUsers
ReqIds == 1..MaxReqs
\* the registry and the resolver are explored with two requests in flight
ShareSlots == {1, 2}
Usernames == {"alice", "bob"}
Passwords == {"pw123456", "hunter22"}
\* a password field that is the JSON object {"$ne": ""} instead of a string:
\* express.json() parses it and the handler hands it to the query as it is
NE_EMPTY == "{$ne: ''}"
\* req.body.password of a signin
SigninPasswords == Passwords \cup {NE_EMPTY}
\* the strings random(10) can return
HashSpace == {"h1", "h2"}
\* body fields of POST /api/v1/content; "" is a missing or empty field
LinkInputs == {"", "https://youtu.be/a"}
TypeInputs == {"", "youtube"}
TitleInputs == {"", "talk"}
\* a userId field in the body of POST /api/v1/content; 0 is none
BodyUserIds == {0, 1}
\* the last ObjectId the store hands out
LastId == MaxUsers + MaxContents
\* body field of DELETE /api/v1/content; 0 is a missing contentId
ContentIdInputs == {0} \cup ((MaxUsers + 1)..LastId)

\* ------------------------------------------------------------------ state
VARIABLES
    JWT_SECRET,   \* process.env.JWT_SECRET ("" when unset or empty)
    now,          \* the server's clock
    users,        \* UserModel collection
    links,        \* LinkModel collection
    contents,     \* ContentModel collection
    nextId,       \* next ObjectId the store hands out
    reqs,         \* the requests in flight, one per slot
    trail,        \* history, per user: hash of the last answered enable, and
                  \* whether exactly one disable followed it
    revoked,      \* history: hashes a disable removed and no create stored since
    forms,        \* brainly-fe: the signin, signup and add-content forms
    cards         \* brainly-fe: the Card components on the dashboard

vars == <<JWT_SECRET, now, users, links, contents, nextId, reqs, trail, revoked, forms, cards>>

\* ------------------------------------------------------------------ brainly-fe
\* submissions of one form that can be in flight together
MaxPending == 2
\* whitespace typed before or after a field's text: 0..MaxPad blanks
MaxPad == 1
\* characters typed into the username and the password field, blanks aside
MaxUsernameLen == 4
MaxPasswordLen == 7

\* the text of an input field is a sequence of characters
Blanks(n) == [i \in 1..n |-> " "]
Letters(n) == [i \in 1..n |-> "a"]
Text(before, n, after) == Blanks(before) \o Letters(n) \o Blanks(after)
UsernameTexts ==
    {Text(b, n, a) : b \in 0..MaxPad, n \in 0..MaxUsernameLen, a \in 0..MaxPad}
PasswordTexts ==
    {Text(b, n, a) : b \in 0..MaxPad, n \in 0..MaxPasswordLen, a \in 0..MaxPad}

\* String.prototype.trim: whitespace is removed from both ends
RECURSIVE trimStart(_)
trimStart(s) == IF s # <<>> /\ Head(s) = " " THEN trimStart(Tail(s)) ELSE s

RECURSIVE trimEnd(_)
trimEnd(s) ==
    IF s # <<>> /\ s[Len(s)] = " " THEN trimEnd(SubSeq(s, 1, Len(s) - 1)) ELSE s

trim(s) == trimEnd(trimStart(s))

\* the pages with a form; the router shows one of them at a time
FormNames == {"signin", "signup", "addContent"}
NoRequest == [username |-> <<"-">>, password |-> <<"-">>]
\* a form as it mounts: useState(false), useState(""), useState(ContentType.Youtube);
\* pending counts the axios.post promises not settled yet; request is the body
\* the last click posted (NoRequest when it posted none) and last is how the
\* last click or settled promise went
FormIdle ==
    [isLoading |-> FALSE, error |-> "", type |-> "youtube", pending |-> 0,
     request |-> NoRequest, last |-> "none"]

\* a flag that can be raised and never lowered
setIsLoadingSticky(f, v) == [f EXCEPT !.isLoading = f.isLoading \/ v]

setIsLoading(f, v) == [f EXCEPT !.isLoading = v]

setError(f, m) == [f EXCEPT !.error = m]

\* error.response.data.message of a failed call; "" when the body has none
ServerMessages == {"", "User already exists"}
\* how an axios.post settles: a 2xx answer (with or without a token in it),
\* an error answer (error.response), no answer (error.request), or neither
Outcomes ==
    {[kind |-> "ok", token |-> t] : t \in {"", "jwt"}}
        \cup {[kind |-> "response", status |-> s, message |-> m] :
                s \in {403, 411, 500}, m \in ServerMessages}
        \cup {[kind |-> "request"], [kind |-> "setup"]}

\* ------------------------------------------------------------------ Card
\* the shapes of link a card is given, as getYouTubeVideoId's patterns see them
LinkShapes == {"watch", "youtu.be", "embed", "v", "shorts", "other"}
CardLinks == [shape : LinkShapes, id : {"a"}]
CardTypes == {"twitter", "youtube"}
FirstLink == [shape |-> "watch", id |-> "a"]
\* the dashboard is explored with two cards
CardSlots == {1, 2}
NoVideo == [videoId |-> "", isShort |-> FALSE]

\* the first pattern that matches decides; youtube.com/shorts/ is the only
\* one that marks a Short
getYouTubeVideoId(url) ==
    IF url.shape \in {"watch", "youtu.be"} THEN [videoId |-> url.id, isShort |-> FALSE]
    ELSE IF url.shape = "embed" THEN [videoId |-> url.id, isShort |-> FALSE]
    ELSE IF url.shape = "v" THEN [videoId |-> url.id, isShort |-> FALSE]
    ELSE IF url.shape = "shorts" THEN [videoId |-> url.id, isShort |-> TRUE]
    ELSE NoVideo

\* the fallback chain, best quality first
getYouTubeThumbnailUrl(videoId, isShort) ==
    IF isShort
    THEN << [vi |-> videoId, file |-> "maxresdefault.jpg"],
            [vi |-> videoId, file |-> "hqdefault.jpg"],
            [vi |-> videoId, file |-> "mqdefault.jpg"],
            [vi |-> videoId, file |-> "default.jpg"] >>
    ELSE << [vi |-> videoId, file |-> "maxresdefault.jpg"],
            [vi |-> videoId, file |-> "sddefault.jpg"],
            [vi |-> videoId, file |-> "hqdefault.jpg"],
            [vi |-> videoId, file |-> "mqdefault.jpg"],
            [vi |-> videoId, file |-> "default.jpg"] >>

\* a card as it mounts: useState(false), useState(0)
CardMounted(link) ==
    [type |-> "youtube", link |-> link, imageLoaded |-> FALSE, currentThumbnailIndex |-> 0]

\* the chain renderYouTubeContent computes for a card (empty when it renders no image)
thumbnailUrls(card) ==
    LET v == getYouTubeVideoId(card.link)
    IN IF card.type = "youtube" /\ v # NoVideo
       THEN getYouTubeThumbnailUrl(v.videoId, v.isShort)
       ELSE <<>>

\* ------------------------------------------------------------------ config
FALLBACK_SECRET == "fallback-secret-for-dev-only"

\* JavaScript truthiness of a string
Truthy(s) == s # ""

\* process.env.JWT_SECRET || "fallback-secret-for-dev-only"
JWT_PASSWORD == IF Truthy(JWT_SECRET) THEN JWT_SECRET ELSE FALLBACK_SECRET

\* ------------------------------------------------------------------ tokens
\* A header value is a sequence of chunks: the literal "Bearer " (7 characters)
\* or a blank-free string, which is a JWT (payload, signing key) or junk.
\* A JWT carries iat, and exp when it was signed with an expiry (0: no exp claim).
BEARER == [t |-> "bearer", pk |-> "-", id |-> 0, key |-> "", iat |-> 0, exp |-> 0]
JUNK == [t |-> "junk", pk |-> "-", id |-> 0, key |-> "", iat |-> 0, exp |-> 0]
NoToken == [t |-> "none", pk |-> "-", id |-> 0, key |-> "", iat |-> 0, exp |-> 0]

\* jwt.sign({id}, secret), no options: iat is added, no exp
jwt_sign(id, secret) ==
    [t |-> "jwt", pk |-> "obj", id |-> id, key |-> secret, iat |-> now, exp |-> 0]

\* jwt.sign("some string", secret): a token whose payload is a bare string
jwt_sign_string(secret) ==
    [t |-> "jwt", pk |-> "str", id |-> 0, key |-> secret, iat |-> 0, exp |-> 0]

\* jwt.verify(token, secret): the decoded payload, or a throw (ok = FALSE) on a
\* malformed token, a bad signature or an exp claim that has passed
jwt_verify(token, secret) ==
    IF /\ Len(token) = 1 /\ token[1].t = "jwt" /\ token[1].key = secret
       /\ (token[1].exp = 0 \/ now < token[1].exp)
    THEN [ok |-> TRUE, pk |-> token[1].pk, id |-> token[1].id]
    ELSE [ok |-> FALSE, pk |-> "-", id |-> 0]

\* header.startsWith("Bearer ")
startsWithBearer(header) == Len(header) > 0 /\ Head(header) = BEARER

extractTokenNoStrip(header) == header

\* header.startsWith("Bearer ") ? header.slice(7) : header
extractToken(header) == IF startsWithBearer(header) THEN Tail(header) ELSE header

Outcome(status, message, next, userId) ==
    [status |-> status, message |-> message, next |-> next, userId |-> userId]

userMiddlewareNoStringCheck(header) ==
    IF header = <<>>
    THEN Outcome(403, "Authorization header missing", FALSE, 0)
    ELSE LET decoded == jwt_verify(extractToken(header), JWT_PASSWORD)
         IN  IF ~decoded.ok
             THEN Outcome(403, "Invalid token", FALSE, 0)
             ELSE Outcome(0, "", TRUE, decoded.id)

\* userMiddleware: the response it sends (status # 0), or the call of next()
\* with req.userId set
userMiddleware(header) ==
    IF header = <<>>
    THEN Outcome(403, "Authorization header missing", FALSE, 0)
    ELSE IF ~Truthy(JWT_PASSWORD)
    THEN Outcome(500, "Server configuration error", FALSE, 0)
    ELSE LET decoded == jwt_verify(extractToken(header), JWT_PASSWORD)
         IN  IF ~decoded.ok
             THEN Outcome(403, "Invalid token", FALSE, 0)
             ELSE IF decoded.pk = "str"
             THEN Outcome(403, "You are not logged in", FALSE, 0)
             ELSE Outcome(0, "", TRUE, decoded.id)

\* ------------------------------------------------------------------ store
NoUserIndex(us, username) == FALSE

\* UserSchema: username {unique: true}
UserDuplicateKey(us, username) == \E x \in us : x.username = username

NoLinkIndex(ls, userId) == FALSE

\* LinkSchema: userId {unique: true}
LinkDuplicateKey(ls, userId) == \E l \in ls : l.userId = userId

UserModelCreateAlone(us, id, username, password) ==
    [ok |-> TRUE, docs |-> {[id |-> id, username |-> username, password |-> password]}]

UserModelUpsert(us, id, username, password) ==
    [ok |-> TRUE,
     docs |-> {x \in us : x.username # username}
                \cup {[id |-> id, username |-> username, password |-> password]}]

\* UserModel.create({username, password}): the collection afterwards, or a throw
UserModelCreate(us, id, username, password) ==
    IF UserDuplicateKey(us, username)
    THEN [ok |-> FALSE, docs |-> us]
    ELSE [ok |-> TRUE,
          docs |-> us \cup {[id |-> id, username |-> username, password |-> password]}]

\* a stored string against a filter value: equality, or the comparison a
\* query operator object asks for
FilterMatches(value, cond) == IF cond = NE_EMPTY THEN value # "" ELSE value = cond

\* UserModel.findOne({username, password})
UserFindByCredentials(us, username, password) ==
    {x \in us : FilterMatches(x.username, username) /\ FilterMatches(x.password, password)}

UserFindAny(us, id) == us

\* UserModel.findOne({_id})
UserFindById(us, id) == {x \in us : x.id = id}

LinkFindNothing(ls, userId) == {}

\* LinkModel.findOne({userId})
LinkFindByUser(ls, userId) == {l \in ls : l.userId = userId}

\* LinkModel.findOne({hash})
LinkFindByHash(ls, hash) == {l \in ls : l.hash = hash}

LinkModelReplace(ls, userId, hash) ==
    [ok |-> TRUE,
     docs |-> {l \in ls : l.userId # userId} \cup {[userId |-> userId, hash |-> hash]}]

\* LinkModel.create({userId, hash}): the collection afterwards, or a throw
LinkModelCreate(ls, userId, hash) ==
    IF LinkDuplicateKey(ls, userId)
    THEN [ok |-> FALSE, docs |-> ls]
    ELSE [ok |-> TRUE, docs |-> ls \cup {[userId |-> userId, hash |-> hash]}]

LinkDeleteNothing(ls, userId) == ls

LinkDeleteAny(ls, userId) == IF ls = {} THEN ls ELSE ls \ {CHOOSE l \in ls : TRUE}

\* LinkModel.deleteOne({userId}): removes one matching document, if any
LinkDeleteOne(ls, userId) ==
    IF \E l \in ls : l.userId = userId
    THEN ls \ {CHOOSE l \in ls : l.userId = userId}
    ELSE ls

ContentFindAll(cs, userId) == cs

\* ContentModel.find({userId})
ContentFind(cs, userId) == {c \in cs : c.userId = userId}

\* .populate("userId", "username"): userId becomes the referenced user's
\* {_id, username}, or null (id 0) when no such user is stored
populate(cs, us) ==
    {[c EXCEPT !.userId =
          IF \E x \in us : x.id = c.userId
          THEN LET x == CHOOSE x \in us : x.id = c.userId
               IN  [id |-> x.id, username |-> x.username]
          ELSE [id |-> 0, username |-> ""]] : c \in cs}

ContentModelCreateForFirst(cs, id, link, type, title, userId) ==
    cs \cup {[id |-> id, link |-> link, type |-> type, title |-> title,
              userId |-> 1, tags |-> <<>>]}

\* ContentModel.create({link, type, title, userId, tags: []})
ContentModelCreate(cs, id, link, type, title, userId) ==
    cs \cup {[id |-> id, link |-> link, type |-> type, title |-> title,
              userId |-> userId, tags |-> <<>>]}

ContentDeleteById(cs, contentId, userId) == {{c \in cs : c.id # contentId}}

\* ContentModel.deleteMany({contentId, userId}): ContentSchema has no path
\* contentId.  Mongoose either keeps the unknown path in the filter, and then no
\* stored document matches, or strips it (strictQuery), and then every
\* document of userId matches.  The collections that can result.
ContentDeleteMany(cs, contentId, userId) == {cs, cs \ ContentFind(cs, userId)}

\* ------------------------------------------------------------------ requests
\* a slot: the request's inputs, the handler's locals and position, the
\* response; raced, prev, first and removed are history
Idle ==
    [kind |-> "idle", pc |-> "idle", header |-> <<>>, username |-> "", password |-> "",
     userId |-> 0, hash |-> "", link |-> "", type |-> "", title |-> "", bodyUserId |-> 0,
     contentId |-> 0,
     status |-> 0, message |-> "", token |-> NoToken,
     resHash |-> "", resUsername |-> "", content |-> {},
     raced |-> FALSE, prev |-> "", first |-> "", removed |-> {}]

NoTrail == [hash |-> "", off |-> FALSE]

Init ==
    /\ JWT_SECRET \in {"", "s3cret"}
    /\ now = 0
    /\ users = {}
    /\ links = {}
    /\ contents = {}
    /\ nextId = 1
    /\ reqs = [r \in ReqIds |-> Idle]
    /\ trail = [u \in UserIds |-> NoTrail]
    /\ revoked = {}
    /\ forms = [f \in FormNames |-> FormIdle]
    /\ cards = [c \in CardSlots |-> CardMounted(FirstLink)]

\* ------------------------------------------------------------------ signup
\* POST /api/v1/signup arrives; UserModel.create is issued
Signup(r, username, password) ==
    /\ reqs[r].kind = "idle"
    /\ LET rivals == {o \in ReqIds \ {r} : reqs[o].kind = "signup" /\ reqs[o].pc = "create"
                                            /\ reqs[o].username = username}
       IN  reqs' = [o \in ReqIds |->
                      IF o = r
                      THEN [Idle EXCEPT !.kind = "signup", !.pc = "create",
                                        !.username = username, !.password = password,
                                        !.raced = (rivals # {})]
                      ELSE IF o \in rivals THEN [reqs[o] EXCEPT !.raced = TRUE]
                      ELSE reqs[o]]
    /\ UNCHANGED <<forms, cards, JWT_SECRET, now, users, links, contents, nextId, trail, revoked>>

\* UserModel.create settles; the handler answers, or its catch answers 411
SignupCreate(r) ==
    /\ reqs[r].kind = "signup" /\ reqs[r].pc = "create"
    /\ LET q == reqs[r]
           created == UserModelCreate(users, nextId, q.username, q.password)
       IN  /\ created.ok => nextId <= MaxUsers
           /\ users' = created.docs
           /\ nextId' = IF created.ok THEN nextId + 1 ELSE nextId
           /\ reqs' = [reqs EXCEPT ![r] =
                          IF created.ok
                          THEN [q EXCEPT !.pc = "done", !.status = 200,
                                         !.message = "User signed up"]
                          ELSE [q EXCEPT !.pc = "done", !.status = 411,
                                         !.message = "User already exists"]]
    /\ UNCHANGED <<forms, cards, JWT_SECRET, now, links, contents, trail, revoked>>

\* ------------------------------------------------------------------ signin
\* POST /api/v1/signin arrives; UserModel.findOne is issued
Signin(r, username, password) ==
    /\ reqs[r].kind = "idle"
    /\ reqs' = [reqs EXCEPT ![r] = [Idle EXCEPT !.kind = "signin", !.pc = "find",
                                    !.username = username, !.password = password]]
    /\ UNCHANGED <<forms, cards, JWT_SECRET, now, users, links, contents, nextId, trail, revoked>>

SigninTokenHardcodedKey(existingUser) == jwt_sign(existingUser.id, FALLBACK_SECRET)

SigninTokenOtherId(existingUser) == jwt_sign(existingUser.id + MaxUsers, JWT_PASSWORD)

SigninTokenExpiring(existingUser) ==
    [jwt_sign(existingUser.id, JWT_PASSWORD) EXCEPT !.exp = now + 1]

\* jwt.sign({id: existingUser._id}, JWT_PASSWORD)
SigninToken(existingUser) == jwt_sign(existingUser.id, JWT_PASSWORD)

\* UserModel.findOne settles; the handler answers with a token, or with 403
SigninFind(r) ==
    /\ reqs[r].kind = "signin" /\ reqs[r].pc = "find"
    /\ LET q == reqs[r]
           found == UserFindByCredentials(users, q.username, q.password)
       IN  IF found # {}
           THEN \E existingUser \in found :
                    reqs' = [reqs EXCEPT ![r] = [q EXCEPT !.pc = "done", !.status = 200,
                                !.token = SigninToken(existingUser)]]
           ELSE reqs' = [reqs EXCEPT ![r] = [q EXCEPT !.pc = "done", !.status = 403,
                                !.message = "Incorrrect credentials"]]
    /\ UNCHANGED <<forms, cards, JWT_SECRET, now, users, links, contents, nextId, trail, revoked>>

\* ------------------------------------------------------------------ inputs
\* the tokens a client can put in a header: signed with the server's key or
\* with another one, with an object or a bare-string payload, or no JWT at all
SigningKeys == {"s3cret", FALLBACK_SECRET}

TokenInputs ==
    {jwt_sign(i, JWT_PASSWORD) : i \in UserIds}
        \cup {jwt_sign(1, k) : k \in SigningKeys}
        \cup {jwt_sign_string(JWT_PASSWORD), JUNK}

\* no header, "Bearer " alone, a token bare or behind "Bearer ", and a
\* doubled prefix
HeaderInputs ==
    {<<>>, <<BEARER>>, <<BEARER, BEARER, jwt_sign(1, JWT_PASSWORD)>>}
        \cup {<<t>> : t \in TokenInputs}
        \cup {<<BEARER, t>> : t \in TokenInputs}

\* what the dashboard's share button sends: the stored token, bare; or nothing
ShareHeaders == {<<>>} \cup {<<jwt_sign(i, JWT_PASSWORD)>> : i \in UserIds}

\* ------------------------------------------------------------------ share
\* random(10) of utils: any string of the hash alphabet
random(len) == HashSpace

\* trail of a user once an enable was answered with hash h
TrailEnabled(h) == [hash |-> h, off |-> FALSE]

\* trail of a user once a disable was answered: a single disable right after
\* an answered enable is remembered
TrailDisabled(t) == IF t.hash # "" /\ ~t.off THEN [t EXCEPT !.off = TRUE] ELSE NoTrail

\* an enable of user u is answered with resHash: what came before it
Answered(q, u, resHash) ==
    [q EXCEPT !.pc = "done", !.status = 200, !.resHash = resHash,
              !.prev = IF trail[u].off THEN "" ELSE trail[u].hash,
              !.first = IF trail[u].off THEN trail[u].hash ELSE ""]

\* POST /api/v1/brain/share arrives: userMiddleware, then the handler up to
\* its first await (LinkModel.findOne or LinkModel.deleteOne is issued)
Share(r, header, share) ==
    /\ reqs[r].kind = "idle"
    /\ LET gate == userMiddleware(header)
           q == [Idle EXCEPT !.kind = "share", !.header = header]
       IN  IF ~gate.next
           THEN reqs' = [reqs EXCEPT ![r] = [q EXCEPT !.pc = "done",
                            !.status = gate.status, !.message = gate.message]]
           ELSE reqs' = [reqs EXCEPT ![r] = [q EXCEPT !.userId = gate.userId,
                            !.pc = IF share THEN "find" ELSE "delete"]]
    /\ UNCHANGED <<forms, cards, JWT_SECRET, now, users, links, contents, nextId, trail, revoked>>

\* LinkModel.findOne({userId}) settles: answer the stored hash, or draw a new
\* hash and issue LinkModel.create
ShareFind(r) ==
    /\ reqs[r].kind = "share" /\ reqs[r].pc = "find"
    /\ LET q == reqs[r]
           u == q.userId
           found == LinkFindByUser(links, u)
       IN  IF found # {}
           THEN \E existingLink \in found :
                    /\ reqs' = [reqs EXCEPT ![r] = Answered(q, u, existingLink.hash)]
                    /\ trail' = [trail EXCEPT ![u] = TrailEnabled(existingLink.hash)]
           ELSE \E hash \in random(10) :
                    /\ reqs' = [reqs EXCEPT ![r] = [q EXCEPT !.pc = "create", !.hash = hash]]
                    /\ trail' = trail
    /\ UNCHANGED <<forms, cards, JWT_SECRET, now, users, links, contents, nextId, revoked>>

\* LinkModel.create({userId, hash}) settles: the hash is answered, or the
\* duplicate-key error leaves the handler, which has no try/catch
ShareCreate(r) ==
    /\ reqs[r].kind = "share" /\ reqs[r].pc = "create"
    /\ LET q == reqs[r]
           u == q.userId
           created == LinkModelCreate(links, u, q.hash)
       IN  /\ links' = created.docs
           /\ IF created.ok
              THEN /\ reqs' = [reqs EXCEPT ![r] = Answered(q, u, q.hash)]
                   /\ trail' = [trail EXCEPT ![u] = TrailEnabled(q.hash)]
                   /\ revoked' = revoked \ {q.hash}
              ELSE /\ reqs' = [reqs EXCEPT ![r] = [q EXCEPT !.pc = "error"]]
                   /\ UNCHANGED <<trail, revoked>>
    /\ UNCHANGED <<forms, cards, JWT_SECRET, now, users, contents, nextId>>

\* LinkModel.deleteOne({userId}) settles; the handler answers "Removed link"
ShareDelete(r) ==
    /\ reqs[r].kind = "share" /\ reqs[r].pc = "delete"
    /\ LET q == reqs[r]
           u == q.userId
       IN  /\ links' = LinkDeleteOne(links, u)
           /\ reqs' = [reqs EXCEPT ![r] = [q EXCEPT !.pc = "done", !.status = 200,
                                                    !.message = "Removed link",
                                                    !.removed = links \ links']]
           /\ trail' = [trail EXCEPT ![u] = TrailDisabled(trail[u])]
           /\ revoked' = revoked \cup {l.hash : l \in links \ links'}
    /\ UNCHANGED <<forms, cards, JWT_SECRET, now, users, contents, nextId>>

\* ------------------------------------------------------------------ resolve
\* GET /api/v1/brain/:shareLink arrives (no middleware); LinkModel.findOne is issued
Resolve(r, hash) ==
    /\ reqs[r].kind = "idle"
    /\ reqs' = [reqs EXCEPT ![r] = [Idle EXCEPT !.kind = "resolve", !.pc = "link",
                                    !.hash = hash]]
    /\ UNCHANGED <<forms, cards, JWT_SECRET, now, users, links, contents, nextId, trail, revoked>>

\* LinkModel.findOne({hash}) settles: 411, or ContentModel.find is issued
ResolveLink(r) ==
    /\ reqs[r].kind = "resolve" /\ reqs[r].pc = "link"
    /\ LET q == reqs[r]
           found == LinkFindByHash(links, q.hash)
       IN  IF found = {}
           THEN reqs' = [reqs EXCEPT ![r] = [q EXCEPT !.pc = "done", !.status = 411,
                            !.message = "Sorry incorrect input"]]
           ELSE \E link \in found :
                    reqs' = [reqs EXCEPT ![r] = [q EXCEPT !.pc = "content",
                                !.userId = link.userId]]
    /\ UNCHANGED <<forms, cards, JWT_SECRET, now, users, links, contents, nextId, trail, revoked>>

\* ContentModel.find({userId: link.userId}) settles; UserModel.findOne is issued
ResolveContent(r) ==
    /\ reqs[r].kind = "resolve" /\ reqs[r].pc = "content"
    /\ reqs' = [reqs EXCEPT ![r] = [reqs[r] EXCEPT !.pc = "user",
                                    !.content = ContentFind(contents, reqs[r].userId)]]
    /\ UNCHANGED <<forms, cards, JWT_SECRET, now, users, links, contents, nextId, trail, revoked>>

\* UserModel.findOne({_id: link.userId}) settles; the handler answers
ResolveUser(r) ==
    /\ reqs[r].kind = "resolve" /\ reqs[r].pc = "user"
    /\ LET q == reqs[r]
           found == UserFindById(users, q.userId)
       IN  IF found = {}
           THEN reqs' = [reqs EXCEPT ![r] = [q EXCEPT !.pc = "done", !.status = 411,
                            !.message = "user not found, error should ideally not happen"]]
           ELSE \E user \in found :
                    reqs' = [reqs EXCEPT ![r] = [q EXCEPT !.pc = "done", !.status = 200,
                                !.resUsername = user.username]]
    /\ UNCHANGED <<forms, cards, JWT_SECRET, now, users, links, contents, nextId, trail, revoked>>

\* ------------------------------------------------------------------ content
\* GET /api/v1/content arrives: userMiddleware, then ContentModel.find is issued
GetContent(r, header) ==
    /\ reqs[r].kind = "idle"
    /\ LET gate == userMiddleware(header)
           q == [Idle EXCEPT !.kind = "getContent", !.header = header]
       IN  IF ~gate.next
           THEN reqs' = [reqs EXCEPT ![r] = [q EXCEPT !.pc = "done",
                            !.status = gate.status, !.message = gate.message]]
           ELSE reqs' = [reqs EXCEPT ![r] = [q EXCEPT !.userId = gate.userId, !.pc = "find"]]
    /\ UNCHANGED <<forms, cards, JWT_SECRET, now, users, links, contents, nextId, trail, revoked>>

\* ContentModel.find({userId}).populate(...) settles; the handler answers {content}
GetContentFind(r) ==
    /\ reqs[r].kind = "getContent" /\ reqs[r].pc = "find"
    /\ reqs' = [reqs EXCEPT ![r] = [reqs[r] EXCEPT !.pc = "done", !.status = 200,
                        !.content = populate(ContentFind(contents, reqs[r].userId), users)]]
    /\ UNCHANGED <<forms, cards, JWT_SECRET, now, users, links, contents, nextId, trail, revoked>>

\* what the content modal sends: the stored token behind "Bearer "; or nothing
ContentHeaders == {<<>>} \cup {<<BEARER, jwt_sign(i, JWT_PASSWORD)>> : i \in UserIds}

MissingLinkOnly(link, type, title) == ~Truthy(link)

\* !link || !type || !title
MissingFields(link, type, title) == ~Truthy(link) \/ ~Truthy(type) \/ ~Truthy(title)

\* POST /api/v1/content arrives: userMiddleware, the input validation, then
\* ContentModel.create is issued; the handler reads link, type and title of
\* the body and nothing else of it
PostContent(r, header, link, type, title) ==
    /\ reqs[r].kind = "idle"
    /\ \E bodyUserId \in BodyUserIds :
       LET gate == userMiddleware(header)
           q == [Idle EXCEPT !.kind = "postContent", !.header = header,
                             !.link = link, !.type = type, !.title = title,
                             !.bodyUserId = bodyUserId]
       IN  IF ~gate.next
           THEN reqs' = [reqs EXCEPT ![r] = [q EXCEPT !.pc = "done",
                            !.status = gate.status, !.message = gate.message]]
           ELSE IF MissingFields(link, type, title)
           THEN reqs' = [reqs EXCEPT ![r] = [q EXCEPT !.userId = gate.userId,
                            !.pc = "done", !.status = 400,
                            !.message = "Missing required fields: link, type, and title are required"]]
           ELSE reqs' = [reqs EXCEPT ![r] = [q EXCEPT !.userId = gate.userId, !.pc = "create"]]
    /\ UNCHANGED <<forms, cards, JWT_SECRET, now, users, links, contents, nextId, trail, revoked>>

\* ContentModel.create settles; the handler answers {message, content}
PostContentCreate(r) ==
    /\ reqs[r].kind = "postContent" /\ reqs[r].pc = "create"
    /\ nextId <= LastId
    /\ LET q == reqs[r]
       IN  /\ contents' = ContentModelCreate(contents, nextId, q.link, q.type, q.title, q.userId)
           /\ reqs' = [reqs EXCEPT ![r] = [q EXCEPT !.pc = "done", !.status = 200,
                          !.message = "Content added successfully",
                          !.content = contents' \ contents]]
    /\ nextId' = nextId + 1
    /\ UNCHANGED <<forms, cards, JWT_SECRET, now, users, links, trail, revoked>>

\* DELETE /api/v1/content arrives: userMiddleware, then ContentModel.deleteMany
\* is issued
DeleteContent(r, header, contentId) ==
    /\ reqs[r].kind = "idle"
    /\ LET gate == userMiddleware(header)
           q == [Idle EXCEPT !.kind = "deleteContent", !.header = header,
                             !.contentId = contentId]
       IN  IF ~gate.next
           THEN reqs' = [reqs EXCEPT ![r] = [q EXCEPT !.pc = "done",
                            !.status = gate.status, !.message = gate.message]]
           ELSE reqs' = [reqs EXCEPT ![r] = [q EXCEPT !.userId = gate.userId,
                            !.pc = "deleteMany"]]
    /\ UNCHANGED <<forms, cards, JWT_SECRET, now, users, links, contents, nextId, trail, revoked>>

\* ContentModel.deleteMany settles; the handler answers "Deleted"
DeleteContentMany(r) ==
    /\ reqs[r].kind = "deleteContent" /\ reqs[r].pc = "deleteMany"
    /\ \E result \in ContentDeleteMany(contents, reqs[r].contentId, reqs[r].userId) :
           contents' = result
    /\ reqs' = [reqs EXCEPT ![r] = [reqs[r] EXCEPT !.pc = "done", !.status = 200,
                                    !.message = "Deleted"]]
    /\ UNCHANGED <<forms, cards, JWT_SECRET, now, users, links, nextId, trail, revoked>>

\* ------------------------------------------------------------------ store failures
\* the errors a store call can reject with when the store itself fails
StoreErrors == {"MongoNetworkError", "MongoServerError"}

\* UserModel.create rejects because the store failed, not because of the
\* unique index; the signup handler's catch answers as for any error
SignupCreateFails(r) ==
    /\ reqs[r].kind = "signup" /\ reqs[r].pc = "create"
    /\ reqs' = [reqs EXCEPT ![r] = [reqs[r] EXCEPT !.pc = "done", !.status = 411,
                                    !.message = "User already exists"]]
    /\ UNCHANGED <<forms, cards, JWT_SECRET, now, users, links, contents, nextId, trail, revoked>>

\* the catch of POST /api/v1/content: the response for an error of that name
ContentErrorResponse(name) ==
    IF name = "ValidationError"
    THEN [status |-> 400, message |-> "Validation error"]
    ELSE IF name = "MongoNetworkError"
    THEN [status |-> 500, message |-> "Database connection error - ensure MongoDB is running"]
    ELSE [status |-> 500, message |-> "Internal server error"]

\* ContentModel.create rejects because the store failed; the catch answers
PostContentCreateFails(r, name) ==
    /\ reqs[r].kind = "postContent" /\ reqs[r].pc = "create"
    /\ reqs' = [reqs EXCEPT ![r] = [reqs[r] EXCEPT !.pc = "done",
                        !.status = ContentErrorResponse(name).status,
                        !.message = ContentErrorResponse(name).message]]
    /\ UNCHANGED <<forms, cards, JWT_SECRET, now, users, links, contents, nextId, trail, revoked>>

\* time passes
Tick ==
    /\ now < MaxTime
    /\ now' = now + 1
    /\ UNCHANGED <<forms, cards, JWT_SECRET, users, links, contents, nextId, reqs, trail, revoked>>

\* the response has been sent (or the client gave up); the slot is free again
Finish(r) ==
    /\ reqs[r].pc \in {"done", "error"}
    /\ reqs' = [reqs EXCEPT ![r] = Idle]
    /\ UNCHANGED <<forms, cards, JWT_SECRET, now, users, links, contents, nextId, trail, revoked>>

\* ------------------------------------------------------------------ brainly-fe: forms
backend == <<JWT_SECRET, now, users, links, contents, nextId, reqs, trail, revoked>>

\* the router renders one page: the other forms are not mounted
OnPage(name) == \A other \in FormNames \ {name} : forms[other] = FormIdle

\* the finally block of a submit handler, and the promise is settled
finally(f, how) == [setIsLoading(f, FALSE) EXCEPT !.pending = @ - 1, !.last = how]

\* Signup.tsx validateInputs: the message it sets, "" when it returns true
SignupValidateInputs(username, password) ==
    IF trim(username) = <<>> THEN "Username is required"
    ELSE IF Len(username) < 3 THEN "Username must be at least 3 characters long"
    ELSE IF trim(password) = <<>> THEN "Password is required"
    ELSE IF Len(password) < 6 THEN "Password must be at least 6 characters long"
    ELSE ""

\* the signup button is clicked: signup() runs up to its await
signup(username, password) ==
    LET f == setError(forms["signup"], "")
        message == SignupValidateInputs(username, password)
    IN /\ OnPage("signup")
       /\ f.pending < MaxPending
       /\ forms' = [forms EXCEPT !["signup"] =
            IF message # ""
            THEN [setError(f, message) EXCEPT !.request = NoRequest, !.last = "invalid"]
            ELSE [setIsLoading(f, TRUE) EXCEPT
                    !.pending = @ + 1,
                    !.request = [username |-> trim(username), password |-> trim(password)],
                    !.last = "sent"]]
       /\ UNCHANGED <<backend, cards>>

\* the signup call settles: the rest of signup() runs
signupSettles(outcome) ==
    LET f == forms["signup"]
        g == IF outcome.kind = "ok" THEN f
             ELSE IF outcome.kind = "response"
             THEN setError(f, IF outcome.message # "" THEN outcome.message
                              ELSE "Signup failed")
             ELSE IF outcome.kind = "request"
             THEN setError(f, "Network error. Please check your connection.")
             ELSE setError(f, "An unexpected error occurred. Please try again.")
    IN /\ f.pending > 0
       /\ forms' = [forms EXCEPT !["signup"] = finally(g, outcome.kind)]
       /\ UNCHANGED <<backend, cards>>

\* Signin.tsx validateInputs
SigninValidateInputs(username, password) ==
    IF trim(username) = <<>> THEN "Username is required"
    ELSE IF trim(password) = <<>> THEN "Password is required"
    ELSE ""

\* the signin button is clicked: signin() runs up to its await
signin(username, password) ==
    LET f == setError(forms["signin"], "")
        message == SigninValidateInputs(username, password)
    IN /\ OnPage("signin")
       /\ f.pending < MaxPending
       /\ forms' = [forms EXCEPT !["signin"] =
            IF message # ""
            THEN [setError(f, message) EXCEPT !.request = NoRequest, !.last = "invalid"]
            ELSE [setIsLoading(f, TRUE) EXCEPT
                    !.pending = @ + 1,
                    !.request = [username |-> trim(username), password |-> trim(password)],
                    !.last = "sent"]]
       /\ UNCHANGED <<backend, cards>>

\* the signin call settles: the rest of signin() runs
signinSettles(outcome) ==
    LET f == forms["signin"]
        g == IF outcome.kind = "ok"
             THEN IF outcome.token = ""
                  THEN setError(f, "Authentication failed - no token received")
                  ELSE f
             ELSE IF outcome.kind = "response"
             THEN IF outcome.status = 403
                  THEN setError(f, "Invalid username or password")
                  ELSE setError(f, IF outcome.message # "" THEN outcome.message
                                   ELSE "Signin failed")
             ELSE IF outcome.kind = "request"
             THEN setError(f, "Network error. Please check your connection and ensure backend is running.")
             ELSE setError(f, "An unexpected error occurred. Please try again.")
    IN /\ f.pending > 0
       /\ forms' = [forms EXCEPT !["signin"] =
            finally(g, IF outcome.kind = "ok" /\ outcome.token = "" THEN "no token received"
                       ELSE outcome.kind)]
       /\ UNCHANGED <<backend, cards>>

\* what is typed into the modal's link field
ModalLinks == {"", "talk", "https://youtu.be/a", "https://x.com/p/1", "https://example.com/"}
\* new URL(link) does not throw
IsURL(link) == link \in {"https://youtu.be/a", "https://x.com/p/1", "https://example.com/"}

\* link.includes('youtube.com') || link.includes('youtu.be')
MentionsYouTube(link) == link \in {"https://youtu.be/a"}
\* link.includes('twitter.com') || link.includes('x.com')
MentionsTwitter(link) == link \in {"https://x.com/p/1"}

\* CreateContentModel.tsx validateInputs, for the type the modal is set to
ContentValidateInputs(title, link, type) ==
    IF trim(title) = <<>> THEN "Title is required"
    ELSE IF link = "" THEN "Link is required"
    ELSE IF ~IsURL(link) THEN "Please enter a valid URL"
    ELSE IF type = "youtube" /\ ~MentionsYouTube(link)
    THEN "Please enter a valid YouTube URL"
    ELSE IF type = "twitter" /\ ~MentionsTwitter(link)
    THEN "Please enter a valid Twitter/X URL"
    ELSE ""

\* one of the modal's two type buttons is clicked
setType(type) ==
    /\ OnPage("addContent")
    /\ forms' = [forms EXCEPT !["addContent"].type = type]
    /\ UNCHANGED <<backend, cards>>

\* the modal's submit button is clicked: addContent() runs up to its await, or
\* through its finally when localStorage holds no token
addContent(title, link, token) ==
    LET f == setError(forms["addContent"], "")
        message == ContentValidateInputs(title, link, f.type)
    IN /\ OnPage("addContent")
       /\ f.pending < MaxPending
       /\ forms' = [forms EXCEPT !["addContent"] =
            IF message # ""
            THEN [setError(f, message) EXCEPT !.request = NoRequest, !.last = "invalid"]
            ELSE IF token = ""
            THEN [finally(setError(setIsLoading(f, TRUE), "Please log in to add content"),
                          "no token stored")
                    EXCEPT !.pending = f.pending, !.request = NoRequest]
            ELSE [setIsLoading(f, TRUE) EXCEPT
                    !.pending = @ + 1,
                    !.request = [title |-> trim(title), link |-> link, type |-> f.type],
                    !.last = "sent"]]
       /\ UNCHANGED <<backend, cards>>

\* the content call settles: the rest of addContent() runs
addContentSettles(outcome) ==
    LET f == forms["addContent"]
        g == IF outcome.kind = "ok" THEN f
             ELSE IF outcome.kind = "response"
             THEN setError(f, IF outcome.message # "" THEN outcome.message
                              ELSE "Server error occurred")
             ELSE IF outcome.kind = "request"
             THEN setError(f, "Network error - check if backend is running on port 3000")
             ELSE setError(f, "Unexpected error occurred. Please try again.")
    IN /\ f.pending > 0
       /\ forms' = [forms EXCEPT !["addContent"] = finally(g, outcome.kind)]
       /\ UNCHANGED <<backend, cards>>

\* the router leaves a page: its component unmounts and its state is gone
Leave(name) ==
    /\ forms[name] # FormIdle
    /\ forms' = [forms EXCEPT ![name] = FormIdle]
    /\ UNCHANGED <<backend, cards>>

\* ------------------------------------------------------------------ brainly-fe: Card
\* the img of card c fails to load: handleImageError
handleImageError(c) ==
    LET card == cards[c]
        urls == thumbnailUrls(card)
    IN /\ urls # <<>>
       /\ cards' = [cards EXCEPT ![c].currentThumbnailIndex =
            IF card.currentThumbnailIndex < Len(urls) - 1
            THEN card.currentThumbnailIndex + 1
            ELSE @]
       /\ UNCHANGED <<backend, forms>>

\* the img of card c loads: onLoad
handleImageLoad(c) ==
    LET card == cards[c]
    IN /\ card.currentThumbnailIndex < Len(thumbnailUrls(card))
       /\ cards' = [cards EXCEPT ![c].imageLoaded = TRUE]
       /\ UNCHANGED <<backend, forms>>

\* the dashboard renders card c again with other props; the component stays
\* mounted and its useState values are kept
CardProps(c, type, link) ==
    /\ <<type, link>> # <<cards[c].type, cards[c].link>>
    /\ cards' = [cards EXCEPT ![c].type = type, ![c].link = link]
    /\ UNCHANGED <<backend, forms>>

\* ------------------------------------------------------------------ specifications
\* signup, signin and a protected read: the credential store and the Auth Gate
NextAuth ==
    \/ \E r \in ReqIds, u \in Usernames, p \in Passwords : Signup(r, u, p)
    \/ \E r \in ReqIds : SignupCreate(r)
    \/ \E r \in ReqIds, u \in Usernames, p \in SigninPasswords : Signin(r, u, p)
    \/ \E r \in ReqIds : SigninFind(r)
    \/ \E r \in ReqIds, header \in HeaderInputs : GetContent(r, header)
    \/ \E r \in ReqIds : GetContentFind(r)
    \/ \E r \in ReqIds : Finish(r)

\* the share-link registry and the public resolver
NextShare ==
    \/ \E r \in ShareSlots, header \in ShareHeaders, share \in BOOLEAN : Share(r, header, share)
    \/ \E r \in ShareSlots : ShareFind(r)
    \/ \E r \in ShareSlots : ShareCreate(r)
    \/ \E r \in ShareSlots : ShareDelete(r)
    \/ \E r \in ShareSlots, hash \in HashSpace : Resolve(r, hash)
    \/ \E r \in ShareSlots : ResolveLink(r)
    \/ \E r \in ShareSlots : ResolveContent(r)
    \/ \E r \in ShareSlots : ResolveUser(r)
    \/ \E r \in ShareSlots : Finish(r)

SpecAuth == Init /\ [][NextAuth]_vars

\* the users that signed up before sharing starts
Registered(n) ==
    {[id |-> i, username |-> IF i = 1 THEN "alice" ELSE "bob", password |-> "pw123456"] :
        i \in 1..n}

\* the registry starts empty, with one or two users signed up
InitShare ==
    /\ JWT_SECRET = "s3cret"
    /\ now = 0
    /\ \E n \in {1, 2} : users = Registered(n) /\ nextId = n + 1
    /\ links = {}
    /\ contents = {}
    /\ reqs = [r \in ReqIds |-> Idle]
    /\ trail = [u \in UserIds |-> NoTrail]
    /\ revoked = {}
    /\ forms = [f \in FormNames |-> FormIdle]
    /\ cards = [c \in CardSlots |-> CardMounted(FirstLink)]

SpecShare == InitShare /\ [][NextShare]_vars

\* the content routes and the public resolver
NextContent ==
    \/ \E r \in ShareSlots, header \in ContentHeaders, link \in LinkInputs,
          type \in TypeInputs, title \in TitleInputs : PostContent(r, header, link, type, title)
    \/ \E r \in ShareSlots : PostContentCreate(r)
    \/ \E r \in ShareSlots, header \in ContentHeaders : GetContent(r, header)
    \/ \E r \in ShareSlots : GetContentFind(r)
    \/ \E r \in ShareSlots, header \in ContentHeaders, contentId \in ContentIdInputs :
          DeleteContent(r, header, contentId)
    \/ \E r \in ShareSlots : DeleteContentMany(r)
    \/ \E r \in ShareSlots, hash \in HashSpace : Resolve(r, hash)
    \/ \E r \in ShareSlots : ResolveLink(r)
    \/ \E r \in ShareSlots : ResolveContent(r)
    \/ \E r \in ShareSlots : ResolveUser(r)
    \/ \E r \in ShareSlots : Finish(r)

\* the links stored once both users enabled sharing: random(10) drew two
\* strings, or the same string twice
SharedLinks ==
    {{[userId |-> 1, hash |-> "h1"], [userId |-> 2, hash |-> h]} : h \in HashSpace}

\* two users signed up and enabled sharing; no content yet
InitContent ==
    /\ JWT_SECRET = "s3cret"
    /\ now = 0
    /\ users = Registered(2) /\ nextId = MaxUsers + 1
    /\ links \in SharedLinks
    /\ contents = {}
    /\ reqs = [r \in ReqIds |-> Idle]
    /\ trail = [u \in UserIds |-> NoTrail]
    /\ revoked = {}
    /\ forms = [f \in FormNames |-> FormIdle]
    /\ cards = [c \in CardSlots |-> CardMounted(FirstLink)]

SpecContent == InitContent /\ [][NextContent]_vars

\* the tokens clients hold: those of the signin responses not yet discarded
IssuedHeaders ==
    {<<reqs[r].token>> : r \in {o \in ReqIds : reqs[o].kind = "signin" /\ reqs[o].token # NoToken}}

\* a client signs in on one connection and keeps the token while time passes
\* and signups, content operations and share toggles run on the other
NextToken ==
    \/ Tick
    \/ \E u \in Usernames, p \in Passwords : Signin(1, u, p)
    \/ SigninFind(1)
    \/ \E u \in Usernames, p \in Passwords : Signup(2, u, p)
    \/ SignupCreate(2)
    \/ \E header \in IssuedHeaders : GetContent(2, header)
    \/ GetContentFind(2)
    \/ \E header \in IssuedHeaders :
          PostContent(2, header, "https://youtu.be/a", "youtube", "talk")
    \/ PostContentCreate(2)
    \/ \E header \in IssuedHeaders, contentId \in ContentIdInputs :
          DeleteContent(2, header, contentId)
    \/ DeleteContentMany(2)
    \/ \E header \in IssuedHeaders, share \in BOOLEAN : Share(2, header, share)
    \/ ShareFind(2)
    \/ ShareCreate(2)
    \/ ShareDelete(2)
    \/ \E r \in ShareSlots : Finish(r)

\* two users signed up
InitToken ==
    /\ JWT_SECRET = "s3cret"
    /\ now = 0
    /\ users = Registered(2) /\ nextId = MaxUsers + 1
    /\ links = {}
    /\ contents = {}
    /\ reqs = [r \in ReqIds |-> Idle]
    /\ trail = [u \in UserIds |-> NoTrail]
    /\ revoked = {}
    /\ forms = [f \in FormNames |-> FormIdle]
    /\ cards = [c \in CardSlots |-> CardMounted(FirstLink)]

SpecToken == InitToken /\ [][NextToken]_vars

\* the registry when nobody disables sharing
NextEnable ==
    \/ \E r \in ShareSlots, header \in ShareHeaders : Share(r, header, TRUE)
    \/ \E r \in ShareSlots : ShareFind(r)
    \/ \E r \in ShareSlots : ShareCreate(r)
    \/ \E r \in ShareSlots, hash \in HashSpace : Resolve(r, hash)
    \/ \E r \in ShareSlots : ResolveLink(r)
    \/ \E r \in ShareSlots : ResolveContent(r)
    \/ \E r \in ShareSlots : ResolveUser(r)
    \/ \E r \in ShareSlots : Finish(r)

SpecEnable == InitShare /\ [][NextEnable]_vars

\* signup and content creation against a store that can fail
NextStore ==
    \/ \E r \in ShareSlots, u \in Usernames, p \in Passwords : Signup(r, u, p)
    \/ \E r \in ShareSlots : SignupCreate(r)
    \/ \E r \in ShareSlots : SignupCreateFails(r)
    \/ \E r \in ShareSlots, header \in ContentHeaders, link \in LinkInputs,
          type \in TypeInputs, title \in TitleInputs : PostContent(r, header, link, type, title)
    \/ \E r \in ShareSlots : PostContentCreate(r)
    \/ \E r \in ShareSlots, name \in StoreErrors : PostContentCreateFails(r, name)
    \/ \E r \in ShareSlots : Finish(r)

\* one user signed up; the other username is free
InitStore ==
    /\ JWT_SECRET = "s3cret"
    /\ now = 0
    /\ users = Registered(1) /\ nextId = 2
    /\ links = {}
    /\ contents = {}
    /\ reqs = [r \in ReqIds |-> Idle]
    /\ trail = [u \in UserIds |-> NoTrail]
    /\ revoked = {}
    /\ forms = [f \in FormNames |-> FormIdle]
    /\ cards = [c \in CardSlots |-> CardMounted(FirstLink)]

SpecStore == InitStore /\ [][NextStore]_vars

\* what the first user's dashboard sends: the stored token, bare; or nothing
FirstUserHeaders == {<<>>, <<jwt_sign(1, JWT_PASSWORD)>>}

\* every route, one request after the other
NextUsers ==
    \/ \E u \in Usernames, p \in Passwords : Signup(1, u, p)
    \/ SignupCreate(1)
    \/ \E u \in Usernames, p \in SigninPasswords : Signin(1, u, p)
    \/ SigninFind(1)
    \/ \E header \in FirstUserHeaders : GetContent(1, header)
    \/ GetContentFind(1)
    \/ \E header \in FirstUserHeaders :
          PostContent(1, header, "https://youtu.be/a", "youtube", "talk")
    \/ PostContentCreate(1)
    \/ \E header \in FirstUserHeaders, contentId \in ContentIdInputs :
          DeleteContent(1, header, contentId)
    \/ DeleteContentMany(1)
    \/ \E header \in FirstUserHeaders, share \in BOOLEAN : Share(1, header, share)
    \/ ShareFind(1)
    \/ ShareCreate(1)
    \/ ShareDelete(1)
    \/ \E hash \in HashSpace : Resolve(1, hash)
    \/ ResolveLink(1)
    \/ ResolveContent(1)
    \/ ResolveUser(1)
    \/ Finish(1)

SpecUsers == InitStore /\ [][NextUsers]_vars

\* the signup page
NextSignupPage ==
    \/ \E username \in UsernameTexts, password \in PasswordTexts : signup(username, password)
    \/ \E outcome \in Outcomes : signupSettles(outcome)
    \/ Leave("signup")

SpecSignupPage == InitStore /\ [][NextSignupPage]_vars

\* what is typed into the forms when the three of them are explored together
FewUsernames == {Text(0, 0, 0), Text(1, 0, 0), Text(0, 3, 1)}
FewPasswords == {Text(0, 0, 0), Text(0, 6, 0)}
FewTitles == {Text(0, 0, 0), Text(0, 1, 0)}

\* the signin page, the signup page and the add-content modal
NextForms ==
    \/ \E username \in FewUsernames, password \in FewPasswords : signin(username, password)
    \/ \E outcome \in Outcomes : signinSettles(outcome)
    \/ \E username \in FewUsernames, password \in FewPasswords : signup(username, password)
    \/ \E outcome \in Outcomes : signupSettles(outcome)
    \/ \E type \in CardTypes : setType(type)
    \/ \E title \in FewTitles, link \in ModalLinks, token \in {"", "jwt"} :
          addContent(title, link, token)
    \/ \E outcome \in Outcomes : addContentSettles(outcome)
    \/ \E name \in FormNames : Leave(name)

SpecForms == InitStore /\ [][NextForms]_vars

\* the dashboard's cards
NextCards ==
    \/ \E c \in CardSlots : handleImageError(c)
    \/ \E c \in CardSlots : handleImageLoad(c)
    \/ \E c \in CardSlots, type \in CardTypes, link \in CardLinks : CardProps(c, type, link)

SpecCards == InitStore /\ [][NextCards]_vars

Next == NextAuth \/ NextShare \/ NextContent \/ NextToken \/ NextStore \/ NextUsers \/ NextEnable
            \/ NextSignupPage \/ NextForms \/ NextCards

Spec == Init /\ [][Next]_vars

\* ------------------------------------------------------------------ claims
ShareAnswered(q) == q.kind = "share" /\ q.pc = "done" /\ q.resHash # ""

\* C1: in every reachable state, under any interleaving of enable and disable
\* requests (two enables of one user that both saw no link included), the
\* store holds at most one ShareLink per userId.
C1_AtMostOneLinkPerUser == \A a, b \in links : a.userId = b.userId => a = b

\* two enables of one user both saw no link; one created it, the other's
\* create hit the unique index
C1_RacingEnables ==
    \E r1, r2 \in ReqIds :
        /\ r1 # r2
        /\ reqs[r1].kind = "share" /\ reqs[r2].kind = "share"
        /\ reqs[r1].userId = reqs[r2].userId
        /\ ShareAnswered(reqs[r1]) /\ reqs[r1].hash = reqs[r1].resHash
        /\ reqs[r2].pc = "error"
        /\ [userId |-> reqs[r1].userId, hash |-> reqs[r1].resHash] \in links

C2_FindStep ==
    \A r \in ReqIds :
        (/\ reqs[r].kind = "share" /\ reqs[r].pc = "find"
         /\ reqs'[r].pc # reqs[r].pc
         /\ \E l \in links : l.userId = reqs[r].userId)
        => /\ reqs'[r].pc = "done" /\ reqs'[r].status = 200
           /\ [userId |-> reqs[r].userId, hash |-> reqs'[r].resHash] \in links
           /\ links' = links

C2_SecondEnable ==
    \A r \in ReqIds : (ShareAnswered(reqs[r]) /\ reqs[r].prev # "") => reqs[r].resHash = reqs[r].prev

\* C2: an enable by a user who already has a ShareLink answers the stored hash
\* and leaves the link store unchanged; two enables of a user in sequence,
\* with no disable of that user in between, answer the same hash.
C2_EnableIsIdempotent == [][C2_FindStep]_vars /\ []C2_SecondEnable

\* an enable answered right after an answered enable of the same user
C2_TwoEnablesInSequence ==
    \E r \in ReqIds :
        ShareAnswered(reqs[r]) /\ reqs[r].prev # "" /\ reqs[r].resHash = reqs[r].prev

\* C3 (as claimed): enable, disable, enable by one user: the third call
\* answers a hash different from the first call's.
C3_ThirdHashDiffers ==
    \A r \in ReqIds : (ShareAnswered(reqs[r]) /\ reqs[r].first # "") => reqs[r].resHash # reqs[r].first

\* C3 (amended): enable, disable, enable by one user: the third call answers
\* the hash it drew itself with random(10) and stored, never the first link
\* read back.
C3_ThirdHashNewlyDrawn ==
    \A r \in ReqIds :
        (ShareAnswered(reqs[r]) /\ reqs[r].first # "")
            => reqs[r].hash \in HashSpace /\ reqs[r].resHash = reqs[r].hash

\* the third call of enable, disable, enable was answered, with another hash
C3_ThirdCallAnswered ==
    \E r \in ReqIds :
        ShareAnswered(reqs[r]) /\ reqs[r].first # "" /\ reqs[r].resHash # reqs[r].first

C4_LinkStep ==
    \A r \in ReqIds :
        (/\ reqs[r].kind = "resolve" /\ reqs[r].pc = "link"
         /\ reqs'[r].pc # reqs[r].pc
         /\ \/ ~ \E l \in links : l.hash = reqs[r].hash
            \/ reqs[r].hash \in revoked)
        => /\ reqs'[r].pc = "done" /\ reqs'[r].status = 411
           /\ reqs'[r].message = "Sorry incorrect input"

\* C4: a resolve of a hash no stored ShareLink carries fails with 411 "Sorry
\* incorrect input"; once a disable of a user was answered, every resolve of
\* that user's former hash fails so until a later enable stores the hash again.
C4_ResolveOfRevokedHashFails == [][C4_LinkStep]_vars

C5_FindStep ==
    \A r \in ReqIds :
        (reqs[r].kind = "signin" /\ reqs[r].pc = "find" /\ reqs'[r].pc # reqs[r].pc)
        => \A x \in users :
               (x.username = reqs[r].username /\ x.password = reqs[r].password)
               => /\ reqs'[r].pc = "done" /\ reqs'[r].status = 200
                  /\ \A header \in {<<reqs'[r].token>>, <<BEARER, reqs'[r].token>>} :
                         /\ userMiddleware(header).next
                         /\ userMiddleware(header).userId = x.id

\* C5: a signin with a (username, password) pair whose signup succeeded answers
\* a token the Auth Gate accepts, attaching the id of the user that signup created.
C5_SigninTokenPassesGate == [][C5_FindStep]_vars

\* a signin was answered with a token, and a protected request carrying it
\* passed the gate as the user who signed in
C5_TokenUsed ==
    \E r1, r2 \in ReqIds :
        /\ reqs[r1].kind = "signin" /\ reqs[r1].pc = "done" /\ reqs[r1].status = 200
        /\ reqs[r2].kind = "getContent" /\ reqs[r2].header = <<BEARER, reqs[r1].token>>
        /\ reqs[r2].pc = "done" /\ reqs[r2].status = 200
        /\ \E x \in users : x.id = reqs[r2].userId /\ x.username = reqs[r1].username

C6_CreateStep ==
    \A r \in ReqIds :
        (/\ reqs[r].kind = "signup" /\ reqs[r].pc = "create"
         /\ reqs'[r].pc # reqs[r].pc
         /\ \E x \in users : x.username = reqs[r].username)
        => /\ reqs'[r].pc = "done" /\ reqs'[r].status = 411
           /\ reqs'[r].message = "User already exists"
           /\ users' = users

\* C6: a signup whose username an existing user has fails with 411 "User
\* already exists" whatever its password, and leaves the user store unchanged.
C6_DuplicateSignupFails == [][C6_CreateStep]_vars

\* a signup with a taken username and another password was refused
C6_DuplicateRefused ==
    \E r \in ReqIds :
        /\ reqs[r].kind = "signup" /\ reqs[r].pc = "done" /\ reqs[r].status = 411
        /\ \E x \in users : x.username = reqs[r].username /\ x.password # reqs[r].password

\* C7: no two User records have the same username, and of two signups with
\* the same username at most one is answered with success.
C7_UsernamesUnique ==
    /\ \A a, b \in users : a.username = b.username => a = b
    /\ \A r1, r2 \in ReqIds :
           (/\ r1 # r2
            /\ reqs[r1].kind = "signup" /\ reqs[r2].kind = "signup"
            /\ reqs[r1].username = reqs[r2].username
            /\ reqs[r1].status = 200)
           => reqs[r2].status # 200

\* two signups with one username were in flight together; one succeeded, the
\* other was refused
C7_RacingSignups ==
    \E r1, r2 \in ReqIds :
        /\ r1 # r2
        /\ reqs[r1].kind = "signup" /\ reqs[r2].kind = "signup"
        /\ reqs[r1].username = reqs[r2].username
        /\ reqs[r1].raced /\ reqs[r2].raced
        /\ reqs[r1].status = 200 /\ reqs[r2].status = 411

\* header present, signature verifies under the server's key, payload an object
GateShouldAccept(header) ==
    /\ header # <<>>
    /\ LET tk == IF Head(header) = BEARER THEN Tail(header) ELSE header
       IN  /\ Len(tk) = 1
           /\ tk[1].t = "jwt" /\ tk[1].key = JWT_PASSWORD /\ tk[1].pk = "obj"

HandlerRan(q) == q.pc = "find" \/ (q.pc = "done" /\ q.status = 200)

C8_Outcome ==
    \A r \in ReqIds :
        reqs[r].kind = "getContent"
        => /\ HandlerRan(reqs[r]) => GateShouldAccept(reqs[r].header)
           /\ ~GateShouldAccept(reqs[r].header)
                 => reqs[r].pc = "done" /\ reqs[r].status = 403 /\ reqs[r].userId = 0
           /\ reqs[r].pc = "find" => reqs[r].status = 0

C8_ArrivalStep ==
    \A r \in ReqIds :
        (reqs[r].kind = "idle" /\ reqs'[r].kind = "getContent")
        => /\ users' = users /\ links' = links /\ contents' = contents
           /\ reqs'[r].status # 0 <=> reqs'[r].pc # "find"

\* C8: the Auth Gate fails closed: the handler runs only if the header is
\* present, the signature verifies and the payload is an object; otherwise the
\* request ends with 403, the handler never runs and no stored state changes;
\* every request gets exactly one of the two outcomes.
C8_AuthGateFailsClosed == []C8_Outcome /\ [][C8_ArrivalStep]_vars

\* a correctly signed token whose payload is a bare string was refused
C8_StringPayloadRefused ==
    \E r \in ReqIds :
        /\ reqs[r].kind = "getContent"
        /\ reqs[r].header = <<jwt_sign_string(JWT_PASSWORD)>>
        /\ reqs[r].pc = "done" /\ reqs[r].status = 403

GateResult(q) ==
    [next |-> HandlerRan(q), status |-> IF HandlerRan(q) THEN 0 ELSE q.status,
     userId |-> q.userId]

\* C9 (as claimed): for every token t the gate gives the same outcome for the
\* header "Bearer " followed by t and for the header t alone.
C9_BearerPrefixOptional ==
    \A r1, r2 \in ReqIds :
        (/\ reqs[r1].kind = "getContent" /\ reqs[r2].kind = "getContent"
         /\ reqs[r1].header = <<BEARER>> \o reqs[r2].header)
        => GateResult(reqs[r1]) = GateResult(reqs[r2])

\* C9 (amended): the same, for every token t that does not itself begin with
\* "Bearer ".
C9_BearerPrefixOptionalForTokens ==
    \A r1, r2 \in ReqIds :
        (/\ reqs[r1].kind = "getContent" /\ reqs[r2].kind = "getContent"
         /\ reqs[r1].header = <<BEARER>> \o reqs[r2].header
         /\ (reqs[r2].header = <<>> \/ Head(reqs[r2].header) # BEARER))
        => GateResult(reqs[r1]) = GateResult(reqs[r2])

\* one token was sent bare and behind "Bearer ", and both requests passed
C9_BothShapesAccepted ==
    \E r1, r2 \in ReqIds :
        /\ reqs[r1].kind = "getContent" /\ reqs[r2].kind = "getContent"
        /\ Len(reqs[r2].header) = 1
        /\ reqs[r1].header = <<BEARER>> \o reqs[r2].header
        /\ HandlerRan(reqs[r1]) /\ HandlerRan(reqs[r2])
        /\ reqs[r1].userId = reqs[r2].userId

\* C10: with the signing secret unset in the environment, a protected request
\* that carries an Authorization header is refused with 500.
C10_UnsetSecretIs500 ==
    \A r \in ReqIds :
        (reqs[r].kind = "getContent" /\ JWT_SECRET = "" /\ reqs[r].header # <<>>)
        => reqs[r].pc = "done" /\ reqs[r].status = 500

\* the links stored for user v
LinksOf(ls, v) == {l \in ls : l.userId = v}

C11_ShareStep ==
    \A r \in ReqIds :
        (reqs'[r].kind = "share" /\ reqs'[r].pc # reqs[r].pc)
        => \A v \in UserIds \ {reqs'[r].userId} : LinksOf(links', v) = LinksOf(links, v)

\* C11: no step of a share request authenticated as user u (arrival, lookup,
\* create, delete) creates, changes or deletes the ShareLink of a user v # u.
C11_ShareLeavesOthersAlone == [][C11_ShareStep]_vars

\* a disable of one user was answered while another user's link is stored
C11_DisableBesideOthersLink ==
    \E r \in ReqIds :
        /\ reqs[r].kind = "share" /\ reqs[r].pc = "done"
        /\ reqs[r].message = "Removed link"
        /\ \E l \in links : l.userId # reqs[r].userId

C12_DeleteStep ==
    \A r \in ReqIds :
        (reqs[r].kind = "share" /\ reqs[r].pc = "delete" /\ reqs'[r].pc # reqs[r].pc)
        => /\ LinksOf(links', reqs[r].userId) = {}
           /\ reqs'[r].pc = "done" /\ reqs'[r].status = 200
           /\ reqs'[r].message = "Removed link" /\ reqs'[r].resHash = ""
           /\ \A v \in UserIds \ {reqs[r].userId} : LinksOf(links', v) = LinksOf(links, v)
           /\ users' = users /\ contents' = contents
           /\ LinksOf(links, reqs[r].userId) = {} => links' = links

\* C12: a disable by user u leaves u without a ShareLink and answers 200
\* "Removed link" with no hash; when u has no ShareLink it answers the same and
\* leaves users, links and contents as they were.
C12_DisableIsIdempotent == [][C12_DeleteStep]_vars

\* two disables of one user were answered: one removed the link, the other
\* found nothing to remove
C12_DisabledTwice ==
    \E r1, r2 \in ReqIds :
        /\ reqs[r1].kind = "share" /\ reqs[r1].message = "Removed link"
        /\ reqs[r2].kind = "share" /\ reqs[r2].message = "Removed link"
        /\ reqs[r1].userId = reqs[r2].userId
        /\ reqs[r1].removed # {} /\ reqs[r2].removed = {}
        /\ LinksOf(links, reqs[r1].userId) = {}

\* the lookup by hash hands the resolver the user the hash is stored for
C13_LinkStep ==
    \A r \in ReqIds :
        (reqs[r].kind = "resolve" /\ reqs[r].pc = "link" /\ reqs'[r].pc # reqs[r].pc)
        => \A l \in links :
               l.hash = reqs[r].hash => reqs'[r].pc = "content" /\ reqs'[r].userId = l.userId

\* the content read takes exactly the rows of that user
C13_ContentStep ==
    \A r \in ReqIds :
        (reqs[r].kind = "resolve" /\ reqs[r].pc = "content" /\ reqs'[r].pc # reqs[r].pc)
        => reqs'[r].content = {c \in contents : c.userId = reqs[r].userId}

\* the answer carries that user's username and the rows read, with no header sent
C13_UserStep ==
    \A r \in ReqIds :
        (reqs[r].kind = "resolve" /\ reqs[r].pc = "user" /\ reqs'[r].pc # reqs[r].pc)
        => \A x \in users :
               x.id = reqs[r].userId
               => /\ reqs'[r].pc = "done" /\ reqs'[r].status = 200
                  /\ reqs'[r].header = <<>>
                  /\ reqs'[r].resUsername = x.username
                  /\ reqs'[r].content = reqs[r].content

\* C13: a public resolve of a hash stored for user u, sent without an
\* Authorization header, answers u's username and exactly the Content rows
\* whose userId is u.
C13_ResolveReturnsOwnersBrain == [][C13_LinkStep /\ C13_ContentStep /\ C13_UserStep]_vars

\* what the caller sees of a failed resolve
ResolveFailure(q) == [status |-> q.status, message |-> q.message]

C14_UnknownHash == [status |-> 411, message |-> "Sorry incorrect input"]

C14_UserStep ==
    \A r \in ReqIds :
        (/\ reqs[r].kind = "resolve" /\ reqs[r].pc = "user"
         /\ reqs'[r].pc # reqs[r].pc
         /\ ~ \E x \in users : x.id = reqs[r].userId)
        => /\ reqs'[r].pc = "done" /\ reqs'[r].status # 200
           /\ reqs'[r].resUsername = ""
           /\ ResolveFailure(reqs'[r]) # C14_UnknownHash

C14_LinkStep ==
    \A r \in ReqIds :
        (/\ reqs[r].kind = "resolve" /\ reqs[r].pc = "link"
         /\ reqs'[r].pc # reqs[r].pc
         /\ ~ \E l \in links : l.hash = reqs[r].hash)
        => ResolveFailure(reqs'[r]) = C14_UnknownHash

\* C14: a resolve that found a ShareLink whose userId matches no User fails,
\* with a response (status and message) that differs from the response to an
\* unknown hash.
C14_IntegrityErrorDistinct == [][C14_UserStep /\ C14_LinkStep]_vars

\* a resolve found a link of a user that does not exist and was refused
C14_LinkWithoutUser ==
    \E r \in ReqIds :
        /\ reqs[r].kind = "resolve" /\ reqs[r].pc = "done" /\ reqs[r].status = 411
        /\ \E l \in links : l.hash = reqs[r].hash /\ l.userId = reqs[r].userId
        /\ ~ \E x \in users : x.id = reqs[r].userId

\* the ids of a set of content items
IdsOf(cs) == {c.id : c \in cs}

C15_FindStep ==
    \A r \in ReqIds :
        (reqs[r].kind = "getContent" /\ reqs[r].pc = "find" /\ reqs'[r].pc # reqs[r].pc)
        => /\ reqs'[r].pc = "done" /\ reqs'[r].status = 200
           /\ IdsOf(reqs'[r].content) = IdsOf({c \in contents : c.userId = reqs[r].userId})
           /\ \A d \in reqs'[r].content : \E c \in contents :
                  /\ c.id = d.id /\ c.link = d.link /\ c.type = d.type /\ c.title = d.title
                  /\ d.userId.id \in {0, c.userId}

\* C15: GET /api/v1/content as user u answers 200 with exactly the stored
\* content items whose userId is u, whatever creations and deletions came
\* before; the empty list when u has none.
C15_GetContentReturnsOwn == [][C15_FindStep]_vars

\* a user got their own items while another user's item was in the store
C15_OwnItemsAmongOthers ==
    \E r \in ReqIds :
        /\ reqs[r].kind = "getContent" /\ reqs[r].pc = "done" /\ reqs[r].status = 200
        /\ reqs[r].content # {}
        /\ \E c \in contents : c.userId # reqs[r].userId

C16_DeleteStep ==
    \A r \in ReqIds :
        (reqs[r].kind = "deleteContent" /\ reqs'[r].pc # reqs[r].pc)
        => \A c \in contents : c.userId # reqs'[r].userId => c \in contents'

\* C16: no step of DELETE /api/v1/content authenticated as user u removes a
\* content item whose userId is not u, whatever contentId the body carries.
C16_DeleteLeavesOthersContent == [][C16_DeleteStep]_vars

\* a delete that named another user's item was answered; the item is still stored
C16_DeleteNamedOthersItem ==
    \E r \in ReqIds :
        /\ reqs[r].kind = "deleteContent" /\ reqs[r].pc = "done" /\ reqs[r].status = 200
        /\ \E c \in contents : c.id = reqs[r].contentId /\ c.userId # reqs[r].userId

\* one of link, type, title is missing or empty in the body of q
C17_FieldMissing(q) == q.link = "" \/ q.type = "" \/ q.title = ""

C17_ArrivalStepAny ==
    \A r \in ReqIds :
        (/\ reqs[r].kind = "idle" /\ reqs'[r].kind = "postContent"
         /\ C17_FieldMissing(reqs'[r]))
        => /\ reqs'[r].pc = "done" /\ reqs'[r].status = 400
           /\ contents' = contents

\* C17 (as claimed): a POST /api/v1/content with link, type or title missing
\* or empty is answered 400 and leaves the content store unchanged.
C17_MissingFieldsIs400 == [][C17_ArrivalStepAny]_vars

C17_ArrivalStep ==
    \A r \in ReqIds :
        (/\ reqs[r].kind = "idle" /\ reqs'[r].kind = "postContent"
         /\ C17_FieldMissing(reqs'[r]))
        => /\ reqs'[r].pc = "done"
           /\ reqs'[r].status = IF GateShouldAccept(reqs'[r].header) THEN 400 ELSE 403
           /\ contents' = contents

C17_StoredComplete == \A c \in contents : ~C17_FieldMissing(c)

\* C17 (amended): a POST /api/v1/content that passes the Auth Gate, with link,
\* type or title missing or empty, is answered 400; one the gate refuses is
\* answered 403 whatever its body; neither creates a content item, and no
\* stored item lacks a link, a type or a title.
C17_MissingFieldsIs400PastGate == [][C17_ArrivalStep]_vars /\ []C17_StoredComplete

\* an authenticated POST without a title was answered 400 with an item in the store
C17_RefusedPastGate ==
    \E r \in ReqIds :
        /\ reqs[r].kind = "postContent" /\ reqs[r].pc = "done" /\ reqs[r].status = 400
        /\ reqs[r].userId # 0 /\ reqs[r].title = "" /\ reqs[r].link # ""
        /\ contents # {}

C18_FindStep ==
    \A r \in ReqIds :
        (reqs[r].kind = "signin" /\ reqs[r].pc = "find" /\ reqs'[r].pc # reqs[r].pc)
        => LET matching == {x \in users : x.username = reqs[r].username
                                          /\ x.password = reqs[r].password}
           IN  /\ reqs'[r].pc = "done"
               /\ matching = {} => reqs'[r].status = 403 /\ reqs'[r].token = NoToken
               /\ reqs'[r].token # NoToken
                     => \E x \in matching : reqs'[r].token = jwt_sign(x.id, JWT_PASSWORD)

\* C18: a signin whose (username, password) pair equals that of no stored user
\* is answered 403 without a token; a token is issued only when both fields
\* equal those of one stored user, and it carries that user's id.
C18_WrongCredentialsRefused == [][C18_FindStep]_vars

\* the routes behind userMiddleware
Protected == {"getContent", "postContent", "deleteContent", "share"}

\* every token of a signin response still passes the gate, bare or behind
\* "Bearer ", as the user who signed in
C19_TokensPass ==
    \A r \in ReqIds :
        (reqs[r].kind = "signin" /\ reqs[r].token # NoToken)
        => \A header \in {<<reqs[r].token>>, <<BEARER, reqs[r].token>>} :
               /\ userMiddleware(header).next
               /\ \E x \in users : /\ x.username = reqs[r].username
                                   /\ x.id = userMiddleware(header).userId

\* a protected request that carries such a token is let through
C19_ArrivalStep ==
    \A r \in ReqIds :
        (/\ reqs[r].kind = "idle" /\ reqs'[r].kind \in Protected
         /\ reqs'[r].header \in IssuedHeaders)
        => /\ reqs'[r].status \notin {403, 500}
           /\ reqs'[r].userId = reqs'[r].header[1].id

\* C19: a token issued by a successful signin is accepted by the Auth Gate,
\* with the same userId, in every later state: whatever time has passed and
\* whatever signups, content operations and share toggles have run.
C19_TokenNeverExpires == []C19_TokensPass /\ [][C19_ArrivalStep]_vars

\* a token issued earlier was used for content and sharing, and still passes
C19_OldTokenInUse ==
    \E r1, r2 \in ReqIds :
        /\ reqs[r1].kind = "signin" /\ reqs[r1].token # NoToken
        /\ reqs[r1].token.iat < now
        /\ reqs[r2].kind \in Protected /\ reqs[r2].header = <<reqs[r1].token>>
        /\ reqs[r2].pc = "done" /\ reqs[r2].status = 200
        /\ \E c \in contents : c.userId = reqs[r1].token.id
        /\ \E l \in links : l.userId = reqs[r1].token.id

\* C20: no request is left with an error that escaped its handler: every
\* error raised while a handler runs is answered by that handler.
C20_NoErrorEscapes == \A r \in ReqIds : reqs[r].pc # "error"

C21_SignupStep ==
    \A r \in ReqIds :
        (/\ reqs[r].kind = "signup" /\ reqs[r].pc = "create"
         /\ reqs'[r].pc # reqs[r].pc
         /\ users' = users
         /\ ~ \E x \in users : x.username = reqs[r].username)
        => reqs'[r].pc = "done" /\ reqs'[r].status = 500

C21_ContentStep ==
    \A r \in ReqIds :
        (/\ reqs[r].kind = "postContent" /\ reqs[r].pc = "create"
         /\ reqs'[r].pc # reqs[r].pc
         /\ contents' = contents)
        => reqs'[r].pc = "done" /\ reqs'[r].status = 500

\* C21: a store failure during a request is answered 500: a signup whose
\* create failed though the username is free is not answered 411, and a POST
\* /api/v1/content whose create failed is answered 500.
C21_StoreFailureIs500 == [][C21_SignupStep /\ C21_ContentStep]_vars

C22_Step == \A x \in users : x \in users'

\* C22: no step of any route (signup, signin, the content routes, share
\* toggles, public resolve) modifies or deletes an existing User record: every
\* stored record is still stored, with the same id, username and password.
C22_UsersImmutable == [][C22_Step]_vars

\* a second user signed up, content and a link were stored, and a signup with
\* a taken username was refused
C22_StoreInUse ==
    /\ Cardinality(users) = 2
    /\ contents # {} /\ links # {}
    /\ reqs[1].kind = "signup" /\ reqs[1].pc = "done" /\ reqs[1].status = 411

\* C23: in every reachable state no two ShareLinks of different users carry
\* the same hash, so a hash resolves to one user's collection only.
C23_HashesUnique == \A a, b \in links : a.hash = b.hash => a.userId = b.userId

\* C24: with no disable in the run, every hash answered to an enable of user
\* u is the hash of the one ShareLink stored for u, also when enables of u
\* interleave between their lookup and their create.
C24_AnsweredHashIsStored ==
    \A r \in ReqIds :
        ShareAnswered(reqs[r])
        => LinksOf(links, reqs[r].userId)
               = {[userId |-> reqs[r].userId, hash |-> reqs[r].resHash]}

\* two enables of one user both looked up before either created; the winner
\* of the create was answered and is still the stored link
C24_InterleavedEnables ==
    \E r1, r2 \in ReqIds :
        /\ reqs[r1].kind = "share" /\ reqs[r2].kind = "share" /\ r1 # r2
        /\ reqs[r1].userId = reqs[r2].userId
        /\ reqs[r1].hash # "" /\ reqs[r2].hash # ""
        /\ ShareAnswered(reqs[r1]) /\ reqs[r2].pc \in {"create", "error"}
        /\ LinksOf(links, reqs[r1].userId) # {}

\* the handler of a protected request is running or has answered
PastGate(q) == q.kind \in Protected /\ q.userId # 0

\* C25: with tokens minted only by signin, whenever a protected handler runs
\* the userId the Auth Gate attached is defined and is the id of a stored user.
C25_GateUserExists ==
    \A r \in ReqIds :
        (reqs[r].kind \in Protected /\ ~(reqs[r].pc = "done" /\ reqs[r].status \in {403, 500}))
        => /\ reqs[r].userId # 0
           /\ \E x \in users : x.id = reqs[r].userId

\* protected handlers of both users ran on tokens from signin
C25_BothUsersPastGate ==
    /\ PastGate(reqs[2]) /\ reqs[2].userId = 2 /\ reqs[2].pc = "done"
    /\ \E c \in contents : c.userId = 1

C26_DeleteStep ==
    \A r \in ReqIds :
        (reqs[r].kind = "deleteContent" /\ reqs[r].pc = "deleteMany"
         /\ reqs'[r].pc # reqs[r].pc)
        => contents' = {c \in contents :
                           ~(c.id = reqs[r].contentId /\ c.userId = reqs[r].userId)}

\* C26: DELETE /api/v1/content {contentId} by user u removes the item whose id
\* is contentId when u owns it and leaves every other item in the store; a
\* contentId that is the id of no item of u removes nothing.
C26_DeleteRemovesNamedItem == [][C26_DeleteStep]_vars

C27_CreateStep ==
    \A r \in ReqIds :
        (/\ reqs[r].kind = "postContent" /\ reqs[r].pc = "create"
         /\ reqs'[r].pc # reqs[r].pc
         /\ reqs'[r].status = 200)
        => /\ contents \subseteq contents'
           /\ Cardinality(contents' \ contents) = 1
           /\ \A c \in contents' \ contents :
                  /\ c.userId = userMiddleware(reqs[r].header).userId
                  /\ c.tags = <<>>
                  /\ c.link = reqs[r].link /\ c.type = reqs[r].type /\ c.title = reqs[r].title
                  /\ ~ \E d \in contents : d.id = c.id

\* C27: a successful POST /api/v1/content adds exactly one item and changes no
\* other; the item is owned by the userId the Auth Gate took from the token,
\* never by a userId of the body, and has an empty tag list.
C27_CreatedItemOwnedByCaller == [][C27_CreateStep]_vars

\* user 2 posted with user 1's id in the body; the item stored is user 2's
C27_BodyUserIdIgnored ==
    \E r \in ReqIds :
        /\ reqs[r].kind = "postContent" /\ reqs[r].pc = "done" /\ reqs[r].status = 200
        /\ reqs[r].bodyUserId = 1 /\ reqs[r].userId = 2
        /\ \E c \in reqs[r].content : c \in contents /\ c.userId = 2

\* C28: every request the signup page sends carries a username of at least 3
\* characters and a password of at least 6, both without surrounding
\* whitespace; a click that fails validation sends no request and shows an
\* error message.
C28_SignupRequestsValidated ==
    LET f == forms["signup"]
    IN /\ f.request # NoRequest =>
            /\ Len(f.request.username) >= 3
            /\ Len(f.request.password) >= 6
            /\ trim(f.request.username) = f.request.username
            /\ trim(f.request.password) = f.request.password
       /\ f.last = "invalid" => f.request = NoRequest /\ f.error # ""

\* the part of C28 about what a failed validation does
C28_InvalidSendsNothing ==
    forms["signup"].last = "invalid" =>
        forms["signup"].request = NoRequest /\ forms["signup"].error # ""

\* the part of C28 about whitespace
C28_RequestsTrimmed ==
    LET f == forms["signup"]
    IN f.request # NoRequest =>
            /\ trim(f.request.username) = f.request.username
            /\ trim(f.request.password) = f.request.password

\* the ways a submission ends after it raised the loading flag
Ended == {"ok", "response", "request", "setup", "no token received", "no token stored"}

\* C29: in the signin, signup and add-content forms the loading flag is false
\* once a submission has ended (success, server error, network error, the
\* add-content return without a token) and whenever no submission is in flight.
C29_LoadingFlagReset ==
    \A name \in FormNames :
        (forms[name].pending = 0 \/ forms[name].last \in Ended) => ~forms[name].isLoading

\* add-content raised the flag and returned early for want of a token, and
\* nothing is in flight
C29_EndedWithoutToken ==
    /\ forms["addContent"].last = "no token stored"
    /\ forms["addContent"].pending = 0
    /\ forms["addContent"].error = "Please log in to add content"
    /\ ~forms["addContent"].isLoading

\* the index of card c is a position of the chain the card renders
IndexInChain(c) ==
    LET urls == thumbnailUrls(cards[c])
    IN urls # <<>> =>
        cards[c].currentThumbnailIndex \in 0..(Len(urls) - 1)

\* a step that moves the index of a card moves it up by one, and not past
\* the last URL of the card's chain
C30_ErrorStep ==
    \A c \in CardSlots :
        cards'[c].currentThumbnailIndex # cards[c].currentThumbnailIndex =>
            /\ cards'[c].currentThumbnailIndex = cards[c].currentThumbnailIndex + 1
            /\ cards'[c].currentThumbnailIndex <= Len(thumbnailUrls(cards[c])) - 1

C30_ErrorAdvancesByOne == [][C30_ErrorStep]_vars

C30_IndexAlwaysInChain == \A c \in CardSlots : IndexInChain(c)

\* C30: an image load error advances a card's thumbnail index by exactly one
\* until the last URL of the chain and then no further, and the index is
\* always a position of the card's current chain (4 URLs for a Short, 5 for a
\* regular video), also after the card's link changed between the two kinds.
C30_ThumbnailFallback == [](\A c \in CardSlots : IndexInChain(c)) /\ [][C30_ErrorStep]_vars

====
